---------------------------- MODULE Spec2Model ----------------------------
(***************************************************************************)
(* eMedis pilot (src/app.py): the finding extractor (parse_findings), the  *)
(* differential scorer (score_differential, softmax) and the Streamlit     *)
(* script around them (password gate, data loading, Analyze Case).         *)
(*                                                                         *)
(* Strings are sequences of one-character strings.  A table cell is a      *)
(* record: a text cell [nan, s] is either a string or pandas' NaN (an      *)
(* empty CSV cell); a weight cell [k, n] is a number, NaN, a non-numeric   *)
(* string, or absent (the table has no weight column).  A float is         *)
(* [nan, v]; probabilities are held in tenths of a percent (500 = 50.0).   *)
(***************************************************************************)
EXTENDS Integers, Sequences, FiniteSets, TLC

VARIABLES auth, pw, button, authAtStart, loaded, ran, screen, data_ok,
          findings_text, symptoms_df, disease_df, tests_df, citations_df,
          found, scores, results, status, shown_tests, shown_refs, x, probs

vars == <<auth, pw, button, authAtStart, loaded, ran, screen, data_ok,
          findings_text, symptoms_df, disease_df, tests_df, citations_df,
          found, scores, results, status, shown_tests, shown_refs, x, probs>>

-----------------------------------------------------------------------------
(* Bounds of the input sets.                                               *)
MaxTextLen == 3
MaxPhraseLen == 2
MaxDictRows == 2
MaxRows == 2
MaxWide == 6
MaxDiseases == 6
MaxRaw == 1

(* Program constants.                                                      *)
MAX_TOP == 5

APP_PASSWORD == "ChangeMeNow!"

-----------------------------------------------------------------------------
(* Generic helpers.                                                        *)
SetMin(S) == CHOOSE m \in S : \A e \in S : m <= e

SetMax(S) == CHOOSE m \in S : \A e \in S : m >= e

Min2(a, b) == IF a <= b THEN a ELSE b

SeqsUpTo(A, n) == UNION {[1..k -> A] : k \in 0..n}

Reverse(s) == [i \in 1..Len(s) |-> s[Len(s) + 1 - i]]

-----------------------------------------------------------------------------
(* Cells and Python's str(), str.strip(), str.lower(), `in`.               *)
S(s) == [nan |-> FALSE, s |-> s]

NaN == [nan |-> TRUE, s |-> <<>>]

\* str(cell): str(float("nan")) is "nan".
Str(c) == IF c.nan THEN <<"n", "a", "n">> ELSE c.s

UpperChars == <<"A","B","C","D","E","F","G","H","I","J","K","L","M",
                "N","O","P","Q","R","S","T","U","V","W","X","Y","Z">>

LowerChars == <<"a","b","c","d","e","f","g","h","i","j","k","l","m",
                "n","o","p","q","r","s","t","u","v","w","x","y","z">>

LowerChar(c) ==
    IF \E i \in 1..26 : UpperChars[i] = c
    THEN LowerChars[CHOOSE i \in 1..26 : UpperChars[i] = c]
    ELSE c

Lower(s) == [i \in 1..Len(s) |-> LowerChar(s[i])]

IsSpace(c) == c \in {" ", "\t", "\n"}

Strip(s) ==
    LET keep == {i \in 1..Len(s) : ~IsSpace(s[i])}
    IN  IF keep = {} THEN <<>> ELSE SubSeq(s, SetMin(keep), SetMax(keep))

\* p in t, for strings: p occurs in t as a contiguous substring.
Contains(p, t) ==
    \E i \in 1..(Len(t) - Len(p) + 1) : SubSeq(t, i, i + Len(p) - 1) = p

\* def normalize(s): return str(s).strip().lower()
normalize(c) == Lower(Strip(Str(c)))

-----------------------------------------------------------------------------
(* parse_findings: one pass over the dictionary rows, appending the raw    *)
(* canonical_text cell of every row whose normalized phrase occurs in the  *)
(* normalized text.                                                        *)
RECURSIVE parse_loop(_, _, _, _)
parse_loop(text, df, i, acc) ==
    IF i > Len(df) THEN acc
    ELSE LET phrase == normalize(df[i].phrase)
         IN  parse_loop(text, df, i + 1,
                 IF Contains(phrase, normalize(text))
                 THEN Append(acc, df[i].canonical_text)
                 ELSE acc)

parse_findings(text, df) == parse_loop(text, df, 1, <<>>)

-----------------------------------------------------------------------------
(* Floats.  F(n) is the number n, FNaN is nan.                             *)
F(n) == [nan |-> FALSE, v |-> n]

FNaN == [nan |-> TRUE, v |-> 0]

FAdd(a, b) == IF a.nan \/ b.nan THEN FNaN ELSE F(a.v + b.v)

\* a < b on floats: every comparison with nan is False.
FLess(a, b) == ~a.nan /\ ~b.nan /\ a.v < b.v

(* Weight cells.                                                           *)
WNum(n) == [k |-> "num", n |-> n]

WNaN == [k |-> "nan", n |-> 0]

WStr == [k |-> "str", n |-> 0]

WAbsent == [k |-> "absent", n |-> 0]

\* float(row.get("weight", 1)): the default only when the key is absent;
\* float("n/a") raises ValueError; float(nan) is nan.
WeightRaises(w) == w.k = "str"

Weight(w) ==
    CASE w.k = "absent" -> F(1)
      [] w.k = "num" -> F(w.n)
      [] OTHER -> FNaN

-----------------------------------------------------------------------------
(* softmax and rounding.  exp is held in fixed point: ExpNeg(d) is         *)
(* round(10^6 * e^-d); a probability is the pair e[i], sum(e), and         *)
(* round(p * 100, 1) is the nearest tenth of a percent of that quotient.   *)
ExpTable == <<1000000, 367879, 135335, 49787, 18316, 6738, 2479, 912,
              335, 123, 45, 17, 6, 2, 1>>

ExpNeg(d) == IF d < Len(ExpTable) THEN ExpTable[d + 1] ELSE 0

RECURSIVE SeqSum(_)
SeqSum(s) == IF s = <<>> THEN 0 ELSE Head(s) + SeqSum(Tail(s))

RoundFloor(a, b) == a \div b

\* round(a / b) to the nearest integer, halves to even (a >= 0, b > 0).
RoundHalfEven(a, b) ==
    LET q == a \div b
        r == a % b
    IN  IF 2 * r < b THEN q
        ELSE IF 2 * r > b THEN q + 1
        ELSE IF q % 2 = 0 THEN q ELSE q + 1

\* e = np.exp(x - np.max(x)); return e / e.sum()
\* A nan anywhere makes np.max nan, and with it every entry.
softmax(vals) ==
    IF \E i \in 1..Len(vals) : vals[i].nan
    THEN [i \in 1..Len(vals) |-> [nan |-> TRUE, num |-> 0, den |-> 1]]
    ELSE LET m == SetMax({vals[i].v : i \in 1..Len(vals)})
             e == [i \in 1..Len(vals) |-> ExpNeg(m - vals[i].v)]
             total == SeqSum(e)
         IN  [i \in 1..Len(vals) |->
                 [nan |-> FALSE, num |-> e[i], den |-> total]]

\* round(p * 100, 1), in tenths of a percent.
Percent(p) ==
    IF p.nan THEN FNaN ELSE F(RoundHalfEven(1000 * p.num, p.den))

RoundedSoftmax(vals) ==
    LET probabilities == softmax(vals)
    IN  [i \in 1..Len(vals) |-> Percent(probabilities[i])]

-----------------------------------------------------------------------------
(* score_differential.                                                     *)
InFound(finding, fnd) ==
    \E i \in 1..Len(fnd) : ~fnd[i].nan /\ fnd[i].s = finding

HasKey(sc, dx) == \E i \in 1..Len(sc) : sc[i].name = dx

\* scores[dx] = scores.get(dx, 0) + w; a dict keeps insertion order.
AddScore(sc, dx, w) ==
    IF HasKey(sc, dx)
    THEN [i \in 1..Len(sc) |->
             IF sc[i].name = dx THEN [name |-> dx, val |-> FAdd(sc[i].val, w)]
             ELSE sc[i]]
    ELSE Append(sc, [name |-> dx, val |-> FAdd(F(0), w)])

\* The loop over disease_df.iterrows(): float() raises before the match test.
RECURSIVE score_loop(_, _, _, _)
score_loop(fnd, df, i, sc) ==
    IF i > Len(df) THEN [raised |-> FALSE, scores |-> sc]
    ELSE IF WeightRaises(df[i].weight) THEN [raised |-> TRUE, scores |-> sc]
    ELSE score_loop(fnd, df, i + 1,
             IF InFound(normalize(df[i].finding_text), fnd)
             THEN AddScore(sc, df[i].disease, Weight(df[i].weight))
             ELSE sc)

\* sorted(..., key=probability, reverse=True): stable, descending; an
\* element goes before the first one whose key is smaller than its own.
RECURSIVE InsertDesc(_, _)
InsertDesc(e, s) ==
    IF s = <<>> THEN <<e>>
    ELSE IF FLess(Head(s).probability, e.probability) THEN <<e>> \o s
    ELSE <<Head(s)>> \o InsertDesc(e, Tail(s))

RECURSIVE SortFrom(_, _, _)
SortFrom(s, i, acc) ==
    IF i > Len(s) THEN acc ELSE SortFrom(s, i + 1, InsertDesc(s[i], acc))

\* A sort that is descending but puts equal keys in reverse order.
SortedDescUnstable(s) == SortFrom(Reverse(s), 1, <<>>)

SortedDesc(s) == SortFrom(s, 1, <<>>)

TruncateNone(s) == s

\* [:MAX_TOP]
Truncate(s) == SubSeq(s, 1, Min2(MAX_TOP, Len(s)))

Ranked(sc) ==
    LET p == RoundedSoftmax([i \in 1..Len(sc) |-> sc[i].val])
    IN  SortedDesc([i \in 1..Len(sc) |->
                       [name |-> sc[i].name, probability |-> p[i]]])

score_differential(fnd, df) ==
    LET agg == score_loop(fnd, df, 1, <<>>)
    IN  IF agg.raised
        THEN [status |-> "ValueError", scores |-> agg.scores, results |-> <<>>]
        ELSE IF agg.scores = <<>>
        THEN [status |-> "ok", scores |-> <<>>, results |-> <<>>]
        ELSE [status |-> "ok", scores |-> agg.scores,
              results |-> Truncate(Ranked(agg.scores))]

-----------------------------------------------------------------------------
(* Input sets.                                                             *)
TextChars == {"a", "N", " "}

Texts(n) == {S(t) : t \in SeqsUpTo(TextChars, n)}

\* An empty CSV cell is read as NaN, so a phrase has at least one character.
PhraseCells(n) ==
    {S(p) : p \in SeqsUpTo(TextChars, n) \ {<<>>}} \cup {NaN}

CanonCells == {S(<<"X">>), S(<<"Y">>), NaN}

DictRows(n) == [phrase : PhraseCells(n), canonical_text : CanonCells]

\* The two extraction examples of the specification.
TextWhatever == S(<<"w","h","a","t","e","v","e","r"," ",
                    "h","a","p","p","e","n","e","d">>)

TextFEVER == S(<<" "," ","F","E","V","E","R"," ","a","n","d"," ",
                 "c","o","u","g","h">>)

DictEver == <<[phrase |-> S(<<"e","v","e","r">>),
               canonical_text |-> S(<<"E","v","e","r">>)]>>

DictFever == <<[phrase |-> S(<<"f","e","v","e","r">>),
                canonical_text |-> S(<<"F","e","v","e","r">>)]>>

ExtractExamples == {<<TextWhatever, DictEver>>, <<TextFEVER, DictFever>>,
                    <<TextWhatever, DictFever>>}

FindingA == S(<<"a">>)

FindingB == S(<<"b">>)

FoundLists == {<<>>, <<FindingA>>, <<S(<<"A">>)>>, <<FindingA, FindingB>>,
               <<NaN, FindingB>>}

SmallWeights == {WNum(-1), WNum(1), WNaN, WStr}

EvidenceRows(weights) ==
    [disease : {"Flu", "Pneumonia"},
     finding_text : {FindingA, S(<<"A", " ">>), FindingB},
     weight : weights,
     citation_id : {"c1"}]

WideNames == <<"D1", "D2", "D3", "D4", "D5", "D6", "D7", "D8", "D9">>

\* A table whose rows go round the first `period` diseases.
WideTable(f, w, period) ==
    [i \in 1..Len(f) |-> [disease |-> WideNames[((i - 1) % period) + 1],
                          finding_text |-> f[i],
                          weight |-> WNum(w[i]),
                          citation_id |-> "c1"]]

RawScores == {F(n) : n \in (0 - 1)..MaxRaw}

-----------------------------------------------------------------------------
(* Values of the variables an operation under test does not use.           *)
AppIdle ==
    /\ auth = FALSE /\ pw = "" /\ button = "none" /\ authAtStart = FALSE
    /\ loaded = "no" /\ ran = FALSE /\ screen = "none" /\ data_ok = TRUE
    /\ tests_df = <<>> /\ citations_df = <<>>
    /\ shown_tests = <<>> /\ shown_refs = <<>>

AppVars == <<auth, pw, button, authAtStart, loaded, ran, screen, data_ok,
             tests_df, citations_df, shown_tests, shown_refs>>

-----------------------------------------------------------------------------
(* extract: parse_findings applied to every text and dictionary.           *)
InitExtract ==
    /\ \/ /\ findings_text \in Texts(MaxTextLen)
          /\ \E n \in 0..MaxDictRows :
                 symptoms_df \in [1..n -> DictRows(MaxPhraseLen)]
       \/ \E input \in ExtractExamples :
              findings_text = input[1] /\ symptoms_df = input[2]
    /\ found = <<>> /\ status = "init"
    /\ disease_df = <<>> /\ scores = <<>> /\ results = <<>>
    /\ x = <<>> /\ probs = <<>>
    /\ AppIdle

Extract ==
    /\ status = "init"
    /\ found' = parse_findings(findings_text, symptoms_df)
    /\ status' = "extracted"
    /\ UNCHANGED <<findings_text, symptoms_df, disease_df, scores, results,
                   x, probs, AppVars>>

NextExtract == Extract

SpecExtract == InitExtract /\ [][NextExtract]_vars

(* score: score_differential applied to every findings list and table.     *)
InitScore ==
    /\ \/ /\ \E n \in 0..MaxRows :
                 disease_df \in [1..n -> EvidenceRows(SmallWeights)]
          /\ found \in FoundLists
       \* a table without a weight column
       \/ /\ \E n \in 1..MaxRows :
                 disease_df \in [1..n -> EvidenceRows({WAbsent})]
          /\ found \in FoundLists
       \* more diseases than MAX_TOP
       \/ /\ \E n \in 1..MaxWide, period \in {3, MaxWide} :
                 \E f \in [1..n -> {FindingA, FindingB}],
                    w \in [1..n -> {1, 2}] :
                     disease_df = WideTable(f, w, period)
          /\ found = <<FindingA>>
    /\ status = "init" /\ scores = <<>> /\ results = <<>>
    /\ findings_text = S(<<>>) /\ symptoms_df = <<>>
    /\ x = <<>> /\ probs = <<>>
    /\ AppIdle

Score ==
    /\ status = "init"
    /\ LET r == score_differential(found, disease_df)
       IN  /\ status' = r.status
           /\ scores' = r.scores
           /\ results' = r.results
    /\ UNCHANGED <<findings_text, symptoms_df, disease_df, found,
                   x, probs, AppVars>>

NextScore == Score

SpecScore == InitScore /\ [][NextScore]_vars

(* softmax and rounding applied to every raw-score mapping.                *)
InitSoftmax ==
    /\ \E n \in 1..MaxDiseases : x \in [1..n -> RawScores]
    /\ probs = <<>> /\ status = "init"
    /\ found = <<>> /\ disease_df = <<>> /\ scores = <<>> /\ results = <<>>
    /\ findings_text = S(<<>>) /\ symptoms_df = <<>>
    /\ AppIdle

ApplySoftmax ==
    /\ status = "init"
    /\ probs' = RoundedSoftmax(x)
    /\ status' = "softmax"
    /\ UNCHANGED <<x, findings_text, symptoms_df, disease_df, found, scores,
                   results, AppVars>>

NextSoftmax == ApplySoftmax

SpecSoftmax == InitSoftmax /\ [][NextSoftmax]_vars

-----------------------------------------------------------------------------
(* The Streamlit script.  Each action is one run of the script from top to *)
(* bottom; st.session_state.auth is what a session keeps between runs.     *)
(* The data files are fixed when the session starts.                       *)
Fever == S(<<"F", "e", "v", "e", "r">>)

Cough == S(<<"C", "o", "u", "g", "h">>)

feverLower == S(<<"f", "e", "v", "e", "r">>)

coughLower == S(<<"c", "o", "u", "g", "h">>)

jointPain == S(<<"j", "o", "i", "n", "t", " ", "p", "a", "i", "n">>)

DictRow(p, c) == [phrase |-> p, canonical_text |-> c]

EvidenceRow(d, f, w, c) ==
    [disease |-> d, finding_text |-> f, weight |-> w, citation_id |-> c]

TestRow(d, t) == [disease |-> d, test_name |-> t, why |-> "why"]

CitationRow(c) ==
    [citation_id |-> c, title |-> "title", url |-> "url", source |-> "source"]

SomeTests == <<TestRow("Flu", "PCR"), TestRow("Pneumonia", "Chest X-ray"),
               TestRow("Gout", "Uric acid")>>

SomeCitations == <<CitationRow("c1"), CitationRow("c2"), CitationRow("c3"),
                   CitationRow("c4")>>

\* The end-to-end example of the specification.
DataExample ==
    [symptoms |-> <<DictRow(feverLower, Fever), DictRow(coughLower, Cough)>>,
     disease |-> <<EvidenceRow("Flu", Fever, WNum(2), "c1"),
                   EvidenceRow("Flu", Cough, WNum(1), "c1"),
                   EvidenceRow("Pneumonia", Cough, WNum(3), "c2")>>,
     tests |-> SomeTests, citations |-> SomeCitations]

\* The same with lower-case canonical findings and a third disease.
DataLower ==
    [symptoms |-> <<DictRow(feverLower, feverLower),
                    DictRow(coughLower, coughLower)>>,
     disease |-> <<EvidenceRow("Flu", Fever, WNum(2), "c1"),
                   EvidenceRow("Flu", Cough, WNum(1), "c1"),
                   EvidenceRow("Pneumonia", Cough, WNum(3), "c2"),
                   EvidenceRow("Gout", jointPain, WNum(2), "c3")>>,
     tests |-> SomeTests, citations |-> SomeCitations]

\* A weight that is no number, and a dictionary row without a phrase.
DataDefects ==
    [symptoms |-> <<DictRow(feverLower, feverLower), DictRow(NaN, coughLower)>>,
     disease |-> <<EvidenceRow("Flu", Fever, WNum(2), "c1"),
                   EvidenceRow("Pneumonia", Cough, WNaN, "c2"),
                   EvidenceRow("Gout", jointPain, WStr, "c3")>>,
     tests |-> SomeTests, citations |-> SomeCitations]

\* No weight column, no tests, no citations.
DataBare ==
    [symptoms |-> <<DictRow(coughLower, coughLower)>>,
     disease |-> <<EvidenceRow("Pneumonia", Cough, WAbsent, "c2")>>,
     tests |-> <<>>, citations |-> <<>>]

Datasets == {DataExample, DataLower, DataDefects, DataBare}

TextExample == S(<<"f", "e", "v", "e", "r", " ", "a", "n", "d", " ", "c", "o",
                   "u", "g", "h", ",", " ", "n", "o", " ", "o", "t", "h", "e",
                   "r", " ", "s", "y", "m", "p", "t", "o", "m", "s">>)

TextDefault == S(<<"3", " ", "d", "a", "y", "s", " ", "o", "f", " ", "f", "e",
                   "v", "e", "r", ",", " ", "c", "o", "u", "g", "h", ",", " ",
                   "c", "h", "e", "s", "t", " ", "p", "a", "i", "n">>)

TextPregnancy == S(<<"p", "r", "e", "g", "n", "a", "n", "c", "y">>)

TextJointPain == S(<<" ", "J", "o", "i", "n", "t", " ", "P", "a", "i", "n", " ">>)

CaseTexts == {TextExample, TextDefault, TextFEVER, TextWhatever,
              TextPregnancy, TextJointPain, S(<<"c","o","u","g","h">>),
              S(<<>>)}

Passwords == {APP_PASSWORD, "changemenow!", ""}

\* dx_names = [r["name"] for r in results]
Names(res) == {res[i].name : i \in 1..Len(res)}

PasswordOkAny(p) == TRUE

\* pw == APP_PASSWORD
PasswordOk(p) == p = APP_PASSWORD

\* tests_df[tests_df["disease"].isin(dx_names)]
SuggestedTests(res) ==
    SelectSeq(tests_df, LAMBDA t : t.disease \in Names(res))

\* citations_df[citations_df["citation_id"].isin(
\*     disease_df["citation_id"].unique())]
EvidenceSources ==
    SelectSeq(citations_df,
              LAMBDA c : \E k \in 1..Len(disease_df) :
                             disease_df[k].citation_id = c.citation_id)

InitApp ==
    /\ auth = FALSE /\ pw = "" /\ button = "none" /\ authAtStart = FALSE
    /\ loaded = "no" /\ ran = FALSE /\ screen = "none"
    /\ data_ok \in BOOLEAN
    /\ \E d \in Datasets :
           /\ symptoms_df = d.symptoms /\ disease_df = d.disease
           /\ tests_df = d.tests /\ citations_df = d.citations
    /\ findings_text = TextDefault
    /\ found = <<>> /\ scores = <<>> /\ results = <<>> /\ status = "idle"
    /\ shown_tests = <<>> /\ shown_refs = <<>>
    /\ x = <<>> /\ probs = <<>>

Tables == <<data_ok, symptoms_df, disease_df, tests_df, citations_df>>

NoAnalysis ==
    /\ ran' = FALSE /\ found' = <<>> /\ scores' = <<>> /\ results' = <<>>
    /\ status' = "idle" /\ shown_tests' = <<>> /\ shown_refs' = <<>>

\* Lines 64-75: the password gate; the script stops before loading anything.
RunGate ==
    /\ ~auth
    /\ \E p \in Passwords, pressed \in BOOLEAN :
           /\ pw' = p
           /\ button' = IF pressed THEN "Continue" ELSE "none"
           /\ IF pressed /\ PasswordOk(p)
              THEN auth' = TRUE /\ screen' = "rerun"
              ELSE /\ auth' = auth
                   /\ screen' = IF pressed THEN "gate_error" ELSE "gate"
    /\ authAtStart' = auth
    /\ loaded' = "no"
    /\ NoAnalysis
    /\ UNCHANGED <<findings_text, x, probs, Tables>>

\* Lines 80-84: load_tables() raises; the script stops.
RunLoadError ==
    /\ auth /\ ~data_ok
    /\ authAtStart' = auth
    /\ loaded' = "failed"
    /\ screen' = "load_error"
    /\ button' = "none"
    /\ NoAnalysis
    /\ UNCHANGED <<auth, pw, findings_text, x, probs, Tables>>

\* Lines 86-103: the form is drawn and Analyze Case is not pressed.
RunForm ==
    /\ auth /\ data_ok
    /\ \E t \in CaseTexts : findings_text' = t
    /\ authAtStart' = auth
    /\ loaded' = "ok"
    /\ screen' = "form"
    /\ button' = "none"
    /\ NoAnalysis
    /\ UNCHANGED <<auth, pw, x, probs, Tables>>

\* Lines 103-126: Analyze Case is pressed.
RunAnalyze ==
    /\ auth /\ data_ok
    /\ \E t \in CaseTexts :
           LET fnd == parse_findings(t, symptoms_df)
               r == score_differential(fnd, disease_df)
           IN  /\ findings_text' = t
               /\ found' = fnd
               /\ status' = r.status
               /\ scores' = r.scores
               /\ results' = r.results
               /\ screen' = IF r.status # "ok" THEN "exception"
                            ELSE IF r.results = <<>> THEN "no_matches"
                            ELSE "differential"
               /\ shown_tests' = IF r.status = "ok" /\ r.results # <<>>
                                 THEN SuggestedTests(r.results) ELSE <<>>
               /\ shown_refs' = IF r.status = "ok" /\ r.results # <<>>
                                THEN EvidenceSources ELSE <<>>
    /\ authAtStart' = auth
    /\ loaded' = "ok"
    /\ ran' = TRUE
    /\ button' = "Analyze Case"
    /\ UNCHANGED <<auth, pw, x, probs, Tables>>

NextApp == RunGate \/ RunLoadError \/ RunForm \/ RunAnalyze

SpecApp == InitApp /\ [][NextApp]_vars

-----------------------------------------------------------------------------
(* What the specification asks of the two operations, stated on their      *)
(* inputs.                                                                 *)
Abs(n) == IF n < 0 THEN 0 - n ELSE n

\* The rows of the evidence table whose normalized finding_text is a member
\* of the findings.
MatchingRows(fnd, df) ==
    {k \in 1..Len(df) : InFound(normalize(df[k].finding_text), fnd)}

ContributedDiseases(fnd, df) == {df[k].disease : k \in MatchingRows(fnd, df)}

FirstContribution(fnd, df, d) ==
    SetMin({k \in MatchingRows(fnd, df) : df[k].disease = d})

FirstOccurrence(df, d) == SetMin({k \in 1..Len(df) : df[k].disease = d})

\* The weight the specification gives a row: its number, and 1 when the
\* field is missing or is no number.
ClaimedWeight(w) == IF w.k = "num" THEN w.n ELSE 1

RECURSIVE ClaimedRaw(_, _, _, _)
ClaimedRaw(fnd, df, d, k) ==
    IF k > Len(df) THEN 0
    ELSE (IF k \in MatchingRows(fnd, df) /\ df[k].disease = d
          THEN ClaimedWeight(df[k].weight) ELSE 0)
         + ClaimedRaw(fnd, df, d, k + 1)

RECURSIVE ProbSum(_)
ProbSum(p) == IF p = <<>> THEN 0 ELSE Head(p).v + ProbSum(Tail(p))

-----------------------------------------------------------------------------
\* C2: score gives a row whose weight is missing or is no number the weight
\* 1, for that row only, and completes without raising: it returns, and the
\* raw score of every disease is the sum of its matched rows' weights with
\* 1 standing for each such row.
C2_DefaultWeightPerRow ==
    status # "init" =>
        /\ status = "ok"
        /\ Len(scores) = Cardinality(ContributedDiseases(found, disease_df))
        /\ \A i \in 1..Len(scores) :
               scores[i].val = F(ClaimedRaw(found, disease_df, scores[i].name, 1))

\* C3: the list score returns is sorted non-increasing by rounded
\* probability (no candidate stands before one with a greater probability),
\* and candidates with equal rounded probability stand in the order in which
\* their diseases first received a contribution in the scan of the table.
\* (When a matched weight is NaN every probability is nan, no comparison
\* is true, and the list keeps the order of first contribution.)
C3_SortedStable ==
    status = "ok" =>
        \A i, j \in 1..Len(results) :
            i < j =>
                /\ ~FLess(results[i].probability, results[j].probability)
                /\ results[i].probability = results[j].probability
                       => FirstContribution(found, disease_df, results[i].name)
                            < FirstContribution(found, disease_df, results[j].name)

\* A ranked list with a strict step and a tie, the tied diseases first
\* contributing in the opposite order to their first rows in the table.
C3_Witness ==
    /\ status = "ok"
    /\ \E i, j \in 1..Len(results) :
           /\ i < j
           /\ ~results[i].probability.nan
           /\ results[i].probability = results[j].probability
           /\ FirstOccurrence(disease_df, results[j].name)
                  < FirstOccurrence(disease_df, results[i].name)
    /\ \E i, j \in 1..Len(results) :
           i < j /\ FLess(results[j].probability, results[i].probability)

\* C4 as stated, with the limit k = MAX_TOP: score returns at most k
\* candidates, and exactly min(k, number of diseases with nonzero raw score).
C4_CountOfNonzeroScores ==
    status = "ok" =>
        /\ Len(results) <= MAX_TOP
        /\ Len(results) =
               Min2(MAX_TOP,
                    Cardinality({i \in 1..Len(scores) : scores[i].val # F(0)}))

\* C4 as amended: score returns exactly min(MAX_TOP, number of diseases that
\* received at least one contribution) candidates, whatever their raw scores
\* sum to.
C4_CountOfContributedDiseases ==
    status = "ok" =>
        /\ Len(results) <= MAX_TOP
        /\ Len(results) =
               Min2(MAX_TOP, Cardinality(ContributedDiseases(found, disease_df)))

\* More than MAX_TOP diseases received a contribution and the list was cut.
C4_Witness ==
    /\ status = "ok"
    /\ Cardinality(ContributedDiseases(found, disease_df)) > MAX_TOP
    /\ Len(results) = MAX_TOP

\* C5 as stated: for every non-empty raw-score mapping the one-decimal
\* rounded probabilities of the full candidate set sum to within 0.1 of 100.
C5_SumWithinOneTenth ==
    status = "softmax" => Abs(ProbSum(probs) - 1000) <= 1

\* C5 as amended: for a mapping of n diseases the rounded probabilities sum
\* to within 0.05 * n of 100 (half a tenth of rounding error per candidate).
C5_SumWithinHalfTenthEach ==
    status = "softmax" => 2 * Abs(ProbSum(probs) - 1000) <= Len(x)

\* Six diseases with equal raw scores: 16.7 each, 100.2 in all.
C5_Witness ==
    /\ status = "softmax"
    /\ Len(x) = 6
    /\ \A i \in 1..Len(x) : x[i] = x[1]
    /\ ProbSum(probs) = 1002

-----------------------------------------------------------------------------
WellFormed(row) == ~row.phrase.nan /\ ~row.canonical_text.nan

FoundSet(fnd) == {fnd[i] : i \in 1..Len(fnd)}

\* The findings the specification's extract returns: the canonical texts of
\* the well-formed rows whose case-folded, stripped phrase occurs in the
\* case-folded, stripped text.
ClaimedFindings(text, df) ==
    {df[i].canonical_text :
        i \in {k \in 1..Len(df) :
                  /\ WellFormed(df[k])
                  /\ Contains(Lower(Strip(df[k].phrase.s)), Lower(Strip(text.s)))}}

\* C6: extract skips a malformed dictionary row (phrase or canonical_text
\* missing), which adds no finding to the output whatever the text, and
\* returns the matches of every other row.
C6_MalformedRowsSkipped ==
    status = "extracted" =>
        FoundSet(found) = ClaimedFindings(findings_text, symptoms_df)

\* C7: a canonical text is in the output of extract if and only if some
\* dictionary entry mapping to it has a phrase that, case-folded and
\* stripped, is a contiguous substring of the case-folded, stripped text;
\* an empty dictionary gives an empty output.
C7_SubstringMatchIff ==
    status = "extracted" =>
        /\ \A c \in {S(<<"X">>), S(<<"Y">>), S(<<"E","v","e","r">>),
                     S(<<"F","e","v","e","r">>)} :
               c \in FoundSet(found) <=>
                   \E k \in 1..Len(symptoms_df) :
                       /\ symptoms_df[k].canonical_text = c
                       /\ ~symptoms_df[k].phrase.nan
                       /\ Contains(Lower(Strip(symptoms_df[k].phrase.s)),
                                   Lower(Strip(findings_text.s)))
        /\ symptoms_df = <<>> => found = <<>>

-----------------------------------------------------------------------------
\* A dictionary entry's phrase occurs in the text.
PhraseOccurs(row, text) ==
    /\ WellFormed(row)
    /\ Contains(Lower(Strip(row.phrase.s)), Lower(Strip(text.s)))

\* C1: extract then score: whenever a dictionary entry's phrase occurs in
\* the text and an evidence row's finding_text names that entry's canonical
\* finding, the row's disease receives the row's weight and is in the ranked
\* set; for the specification's example the result is Flu 50.0 followed by
\* Pneumonia 50.0.
C1_EndToEnd ==
    ran =>
        /\ \A i \in 1..Len(symptoms_df), k \in 1..Len(disease_df) :
               (/\ PhraseOccurs(symptoms_df[i], findings_text)
                /\ disease_df[k].finding_text = symptoms_df[i].canonical_text
                /\ disease_df[k].weight.k = "num")
                   => /\ status = "ok"
                      /\ HasKey(scores, disease_df[k].disease)
                      /\ disease_df[k].disease \in Names(results)
        /\ (/\ findings_text = TextExample
            /\ symptoms_df = DataExample.symptoms
            /\ disease_df = DataExample.disease)
               => results = <<[name |-> "Flu", probability |-> F(500)],
                              [name |-> "Pneumonia", probability |-> F(500)]>>

\* C8: when no evidence row's finding_text is in the findings, score returns
\* an empty sequence without error and the case is reported as having no
\* candidates, not as a failure.
C8_NoMatchIsEmpty ==
    (ran /\ MatchingRows(found, disease_df) = {}) =>
        /\ status = "ok"
        /\ results = <<>>
        /\ screen = "no_matches"

\* C9: after an analysis with a non-empty ranked list, a citation is shown
\* only if its citation_id belongs to an evidence row of a disease in the
\* returned list, and a test suggestion only if its disease is in the list.
C9_ShownFollowResults ==
    screen = "differential" =>
        /\ \A i \in 1..Len(shown_refs) :
               \E k \in 1..Len(disease_df) :
                   /\ disease_df[k].citation_id = shown_refs[i].citation_id
                   /\ disease_df[k].disease \in Names(results)
        /\ \A i \in 1..Len(shown_tests) :
               shown_tests[i].disease \in Names(results)

\* C10: the auth flag starts false, becomes true only in a run where
\* Continue is pressed with the password equal to APP_PASSWORD, and never
\* returns to false; tables are loaded and extract and score are run only
\* in runs that start with the flag true.
C10_AuthGate ==
    /\ auth = FALSE
    /\ [][auth => auth']_vars
    /\ [][(~auth /\ auth') => (button' = "Continue" /\ pw' = APP_PASSWORD)]_vars
    /\ []((loaded # "no" \/ ran) => (auth /\ authAtStart))

\* An analysis has run in an authenticated session.
C10_Witness == auth /\ authAtStart /\ ran /\ loaded = "ok" /\ results # <<>>
=============================================================================
